---- MODULE Spec2Model ----
(***************************************************************************)
(* Match event ledger and derived-state engine of the rugby scorer:        *)
(* the zustand store useMatchStore (src/src/App.tsx), the squad resolver   *)
(* getSquadStatus, the sin-bin list of SinBinTimers, the End-match handler *)
(* of MatchControlsPanel and the log builder of src/src/db/matches.ts.     *)
(***************************************************************************)
EXTENDS Integers, Sequences, FiniteSets, TLC

(* ------------------------------ bounds --------------------------------- *)
\* events created per model run (crypto.randomUUID() draws)
MaxIds == 4
\* largest value of Date.now() observed
MaxNow == 3
\* clock values observed right after a half starts: 0..MaxEarly
MaxEarly == 1
\* clock values observed around sin-bin expiry: SinBinSeconds-1 .. SinBinSeconds+MaxLate
MaxLate == 1
\* halves played
MaxHalf == 2
\* score events carrying a player at a time
MaxAssigned == 1
\* substitutions and cards of a ledger handed to getSquadStatus as drawn input
MaxDrawn == 2
\* End-match click handlers that can be in flight at once
MaxClicks == 2
\* presses of the injury-time button a half is observed for
MaxInjury == 1
\* single seconds a store driven call by call is observed for after a half of
\* regular time
MaxTicks == 1

(* ------------------------- program constants --------------------------- *)
SinBinSeconds == 600
InjuryIncrement == 60
SecondsPerMinute == 60
\* the half duration of the default match configuration, in minutes
HalfMinutes == 40
halfDuration == HalfMinutes * SecondsPerMinute

Teams == {"home", "away"}
ScoreTypes == {"try", "conversion", "penalty", "drop-goal", "penalty-try"}
CardTypes == {"yellow", "red"}
NoPlayer == "none"      \* player: undefined
NoTeam == "null"        \* lastTryTeam: null
Undefined == -1         \* returnTime: undefined
NoMatchId == "null"     \* currentMatchId: null

\* the points table of addScore
Points(type) ==
  CASE type = "try" -> 5
    [] type = "conversion" -> 2
    [] type = "penalty" -> 3
    [] type = "drop-goal" -> 3
    [] type = "penalty-try" -> 7

\* the players handed to setPlayers by the match setup screen: one starter
\* and one replacement per team, listed in roster order (not by number)
Roster ==
  << [id |-> "h2", number |-> 16, isStarter |-> FALSE, team |-> "home"],
     [id |-> "h1", number |-> 1, isStarter |-> TRUE, team |-> "home"],
     [id |-> "a1", number |-> 1, isStarter |-> TRUE, team |-> "away"],
     [id |-> "a2", number |-> 16, isStarter |-> FALSE, team |-> "away"] >>

(* ------------------------------ helpers -------------------------------- *)
Range(s) == {s[i] : i \in 1..Len(s)}

\* Array.prototype.filter
Filter(s, keep(_)) == SelectSeq(s, keep)

\* arr.slice(0, -1)
DropLast(s) == IF s = << >> THEN << >> ELSE SubSeq(s, 1, Len(s) - 1)

\* Math.floor(x / 60)
MinuteOf(seconds) == seconds \div SecondsPerMinute

\* the runs of the End-match click handler
Handlers == 1..MaxClicks

\* a player record of db.players before any match was saved
NewPlayerStats ==
  [gamesPlayed |-> 0, tries |-> 0, points |-> 0, yellowCards |-> 0, redCards |-> 0]

VARIABLES
  homeScore, awayScore, scoreEvents, cards, players, substitutionEvents,
  systemEvents, cardReturnEvents, currentHalf, elapsedSeconds, injuryTime,
  isRunning, lastTryTeam, matchStarted, currentMatchId,
  now,          \* Date.now()
  nextId,       \* next value of crypto.randomUUID()
  endPc,        \* position of each End-match click handler
  snap,         \* snapshot taken by each End-match click handler
  statsAt,      \* updatePlayerStatsFromLog: index of the player being updated
  statsGot,     \* updatePlayerStatsFromLog: the player record getPlayer returned
  dbMatches,    \* db.matches: the saved match records
  dbPlayers     \* db.players: the cumulative statistics of each player

storeVars ==
  << homeScore, awayScore, scoreEvents, cards, players, substitutionEvents,
     systemEvents, cardReturnEvents, currentHalf, elapsedSeconds, injuryTime,
     isRunning, lastTryTeam, matchStarted, currentMatchId >>
envVars == << now, nextId >>
saveVars == << endPc, snap, statsAt, statsGot, dbMatches, dbPlayers >>
vars == << storeVars, envVars, saveVars >>

\* initial state of the store (create(...) defaults)
Init ==
  /\ homeScore = 0
  /\ awayScore = 0
  /\ scoreEvents = << >>
  /\ cards = << >>
  /\ players = << >>
  /\ substitutionEvents = << >>
  /\ systemEvents = << >>
  /\ cardReturnEvents = << >>
  /\ currentHalf = 1
  /\ elapsedSeconds = 0
  /\ injuryTime = 0
  /\ isRunning = FALSE
  /\ lastTryTeam = NoTeam
  /\ matchStarted = FALSE
  /\ currentMatchId = NoMatchId
  /\ now = 1
  /\ nextId = 1
  /\ endPc = [h \in Handlers |-> "idle"]
  /\ snap = [h \in Handlers |-> << >>]
  /\ statsAt = [h \in Handlers |-> 0]
  /\ statsGot = [h \in Handlers |-> << >>]
  /\ dbMatches = << >>
  /\ dbPlayers = [id \in {Roster[i].id : i \in 1..Len(Roster)} |-> NewPlayerStats]

(* ---------------------- squad status and sin bin ----------------------- *)
\* Array.prototype.sort((a, b) => a.number - b.number): stable insertion
RECURSIVE InsertByNumber(_, _)
InsertByNumber(p, s) ==
  IF s = << >> THEN << p >>
  ELSE IF p.number < Head(s).number THEN << p >> \o s
       ELSE << Head(s) >> \o InsertByNumber(p, Tail(s))

RECURSIVE SortByNumber(_)
SortByNumber(s) ==
  IF s = << >> THEN << >>
  ELSE InsertByNumber(s[Len(s)], SortByNumber(DropLast(s)))

\* teamSubs.forEach: delete the outgoing id, add the incoming id
RECURSIVE ApplySubs(_, _)
ApplySubs(onField, subs) ==
  IF subs = << >> THEN onField
  ELSE ApplySubs((onField \ {Head(subs).offPlayerId}) \cup {Head(subs).onPlayerId},
                 Tail(subs))

\* mutant of redCardedIds: a red card marked returned no longer counts
redCardedIds_UnlessReturned(team, cs) ==
  {c.player : c \in {d \in Range(cs) : d.team = team /\ d.type = "red" /\ ~d.returned}}

redCardedIds(team, cs) ==
  {c.player : c \in {d \in Range(cs) : d.team = team /\ d.type = "red"}}

\* mutant of inSinBinIds: the sin bin still holds at returnTime itself
inSinBinIds_UntilReturnTime(team, cs, elapsed) ==
  {c.player : c \in {d \in Range(cs) :
      /\ d.team = team
      /\ d.type = "yellow"
      /\ ~d.returned
      /\ d.returnTime # Undefined
      /\ elapsed <= d.returnTime}}

inSinBinIds(team, cs, elapsed) ==
  {c.player : c \in {d \in Range(cs) :
      /\ d.team = team
      /\ d.type = "yellow"
      /\ ~d.returned
      /\ d.returnTime # Undefined
      /\ elapsed < d.returnTime}}

\* mutant of currentlyOnPitch: the substitutions of both teams are applied
currentlyOnPitch_AllSubs(team, ps, subs) ==
  LET teamPlayers == Filter(ps, LAMBDA p : p.team = team)
  IN ApplySubs({p.id : p \in {q \in Range(teamPlayers) : q.isStarter}}, subs)

currentlyOnPitch(team, ps, subs) ==
  LET teamPlayers == Filter(ps, LAMBDA p : p.team = team)
      teamSubs == Filter(subs, LAMBDA s : s.team = team)
  IN ApplySubs({p.id : p \in {q \in Range(teamPlayers) : q.isStarter}}, teamSubs)

getSquadStatus(team, ps, subs, cs, elapsed) ==
  LET teamPlayers == SortByNumber(Filter(ps, LAMBDA p : p.team = team))
      onField == currentlyOnPitch(team, ps, subs)
      red == redCardedIds(team, cs)
      bin == inSinBinIds(team, cs, elapsed)
  IN [onPitch |-> Filter(teamPlayers,
                    LAMBDA p : p.id \in onField /\ p.id \notin red /\ p.id \notin bin),
      onBench |-> Filter(teamPlayers, LAMBDA p : p.id \notin onField)]

\* SinBinTimers: the cards shown in the sin-bin box
activeSinBins(cs, elapsed) ==
  Filter(cs, LAMBDA c : /\ c.type = "yellow"
                        /\ ~c.returned
                        /\ c.returnTime # Undefined /\ c.returnTime # 0
                        /\ elapsed < c.returnTime)

\* SinBinTimers: timeLeft of a listed card
timeLeft(card, elapsed) ==
  (IF card.returnTime = Undefined THEN 0 ELSE card.returnTime) - elapsed

Ids(ps) == {p.id : p \in Range(ps)}


(* ------------------------- the store operations ------------------------ *)
\* values Date.now() may return for the next call: the clock never runs
\* backwards, and two calls may fall into the same millisecond
Stamps == {t \in {now, now + 1} : t <= MaxNow}

\* an event record is built: crypto.randomUUID() and Date.now() are drawn
Draw(ts) ==
  /\ nextId <= MaxIds
  /\ ts >= now
  /\ now' = ts
  /\ nextId' = nextId + 1

\* setPlayers, called by the match setup screen with the loaded rosters
SetPlayers ==
  /\ ~matchStarted
  /\ players # Roster
  /\ players' = Roster
  /\ UNCHANGED << homeScore, awayScore, scoreEvents, cards, substitutionEvents,
                  systemEvents, cardReturnEvents, currentHalf, elapsedSeconds,
                  injuryTime, isRunning, lastTryTeam, matchStarted, currentMatchId >>
  /\ UNCHANGED << envVars, saveVars >>

startMatch(ts) ==
  /\ Draw(ts)
  /\ matchStarted' = TRUE
  /\ systemEvents' = << [id |-> nextId, timestamp |-> ts, type |-> "match-start",
                         half |-> 1, matchTime |-> 0] >>
  /\ UNCHANGED << homeScore, awayScore, scoreEvents, cards, players,
                  substitutionEvents, cardReturnEvents, currentHalf, elapsedSeconds,
                  injuryTime, isRunning, lastTryTeam, currentMatchId >>
  /\ UNCHANGED saveVars

\* startMatch, reached from the setup screen once the rosters are loaded
StartMatch(ts) ==
  /\ ~matchStarted
  /\ players = Roster
  /\ \A h \in Handlers : endPc[h] = "idle"
  /\ startMatch(ts)

\* addScore: the try a conversion is checked against
lastTry(events) ==
  LET tries == Filter(events, LAMBDA e : e.type = "try" /\ ~e.pending)
  IN IF tries = << >> THEN << >> ELSE << tries[Len(tries)] >>

\* addScore: the early return of a conversion
conversionRejected(events, team, type) ==
  /\ type = "conversion"
  /\ \/ lastTry(events) = << >>
     \/ lastTry(events)[1].team # team

\* mutant of lastTryTeamAfterAdd: a pending event leaves lastTryTeam alone
lastTryTeamAfterAdd_KeepOnPending(team, type, pending) ==
  IF pending THEN lastTryTeam
  ELSE IF type = "try" \/ type = "penalty-try" THEN team ELSE NoTeam

\* addScore: lastTryTeam after a recorded score
lastTryTeamAfterAdd(team, type, pending) ==
  IF (type = "try" \/ type = "penalty-try") /\ ~pending THEN team ELSE NoTeam

addScore(team, type, player, pending, ts) ==
  IF conversionRejected(scoreEvents, team, type)
  THEN UNCHANGED vars
  ELSE
    /\ Draw(ts)
    /\ scoreEvents' = Append(scoreEvents,
         [id |-> nextId, timestamp |-> ts, team |-> team, type |-> type,
          points |-> Points(type), player |-> player, half |-> currentHalf,
          minute |-> MinuteOf(elapsedSeconds), matchTime |-> elapsedSeconds,
          pending |-> pending])
    /\ homeScore' = IF team = "home" /\ ~pending THEN homeScore + Points(type)
                    ELSE homeScore
    /\ awayScore' = IF team # "home" /\ ~pending THEN awayScore + Points(type)
                    ELSE awayScore
    /\ lastTryTeam' = lastTryTeamAfterAdd(team, type, pending)
    /\ UNCHANGED << cards, players, substitutionEvents, systemEvents,
                    cardReturnEvents, currentHalf, elapsedSeconds, injuryTime,
                    isRunning, matchStarted, currentMatchId >>
    /\ UNCHANGED saveVars

AddScore(team, type, player, pending, ts) ==
  /\ matchStarted
  /\ addScore(team, type, player, pending, ts)

\* Array.prototype.map with a change of the entries whose id matches
MapById(events, id, change(_)) ==
  [i \in 1..Len(events) |-> IF events[i].id = id THEN change(events[i]) ELSE events[i]]

\* mutant of FindById: an id that matches nothing yields the last event
FindById_OrLast(events, id) ==
  LET hits == Filter(events, LAMBDA e : e.id = id)
  IN IF hits = << >>
     THEN (IF events = << >> THEN << >> ELSE << events[Len(events)] >>)
     ELSE << hits[1] >>

\* Array.prototype.find by id: the first match, or none
FindById(events, id) ==
  LET hits == Filter(events, LAMBDA e : e.id = id)
  IN IF hits = << >> THEN << >> ELSE << hits[1] >>

\* mutant of lastTryTeamAfterApprove: only a plain try sets lastTryTeam
lastTryTeamAfterApprove_TryOnly(event) ==
  IF event.type = "try" THEN event.team ELSE NoTeam

\* resolvePendingEvent: lastTryTeam after an approval
lastTryTeamAfterApprove(event) ==
  IF event.type = "try" \/ event.type = "penalty-try" THEN event.team ELSE NoTeam

resolvePendingEvent(eventId, approved) ==
  LET found == FindById(scoreEvents, eventId) IN
  IF found = << >>
  THEN UNCHANGED vars
  ELSE LET event == found[1] IN
    /\ IF approved
       THEN /\ scoreEvents' = MapById(scoreEvents, eventId,
                                LAMBDA e : [e EXCEPT !.pending = FALSE])
            /\ homeScore' = IF event.team = "home" THEN homeScore + event.points
                            ELSE homeScore
            /\ awayScore' = IF event.team # "home" THEN awayScore + event.points
                            ELSE awayScore
            /\ lastTryTeam' = lastTryTeamAfterApprove(event)
       ELSE /\ scoreEvents' = Filter(scoreEvents, LAMBDA e : e.id # eventId)
            /\ UNCHANGED << homeScore, awayScore, lastTryTeam >>
    /\ UNCHANGED << cards, players, substitutionEvents, systemEvents,
                    cardReturnEvents, currentHalf, elapsedSeconds, injuryTime,
                    isRunning, matchStarted, currentMatchId >>
    /\ UNCHANGED << envVars, saveVars >>

ResolvePendingEvent(eventId, approved) ==
  /\ matchStarted
  /\ resolvePendingEvent(eventId, approved)

updateScoreEventPlayer(eventId, playerId) ==
  /\ scoreEvents' = MapById(scoreEvents, eventId,
                      LAMBDA e : [e EXCEPT !.player = playerId])
  /\ UNCHANGED << homeScore, awayScore, cards, players, substitutionEvents,
                  systemEvents, cardReturnEvents, currentHalf, elapsedSeconds,
                  injuryTime, isRunning, lastTryTeam, matchStarted, currentMatchId >>
  /\ UNCHANGED << envVars, saveVars >>

UpdateScoreEventPlayer(eventId, playerId) ==
  /\ matchStarted
  /\ updateScoreEventPlayer(eventId, playerId)

\* removeScoreEvent: the loop over the remaining events
RECURSIVE Recompute(_, _)
Recompute(events, acc) ==
  IF events = << >> THEN acc
  ELSE LET e == Head(events) IN
    IF e.pending THEN Recompute(Tail(events), acc)
    ELSE Recompute(Tail(events),
      [homeScore |-> IF e.team = "home" THEN acc.homeScore + e.points
                     ELSE acc.homeScore,
       awayScore |-> IF e.team = "home" THEN acc.awayScore
                     ELSE acc.awayScore + e.points,
       lastTryTeam |-> IF e.type = "conversion" THEN e.team
                       ELSE IF e.type = "try" \/ e.type = "penalty-try" THEN e.team
                       ELSE acc.lastTryTeam])

removeScoreEvent(eventId) ==
  LET remaining == Filter(scoreEvents, LAMBDA e : e.id # eventId)
      r == Recompute(remaining,
             [homeScore |-> 0, awayScore |-> 0, lastTryTeam |-> NoTeam])
  IN
  /\ scoreEvents' = remaining
  /\ homeScore' = r.homeScore
  /\ awayScore' = r.awayScore
  /\ lastTryTeam' = r.lastTryTeam
  /\ UNCHANGED << cards, players, substitutionEvents, systemEvents,
                  cardReturnEvents, currentHalf, elapsedSeconds, injuryTime,
                  isRunning, matchStarted, currentMatchId >>
  /\ UNCHANGED << envVars, saveVars >>

RemoveScoreEvent(eventId) ==
  /\ matchStarted
  /\ removeScoreEvent(eventId)


addCard(team, player, type, ts) ==
  /\ Draw(ts)
  /\ cards' = Append(cards,
       [id |-> nextId, timestamp |-> ts, team |-> team, player |-> player,
        type |-> type, half |-> currentHalf, minute |-> MinuteOf(elapsedSeconds),
        matchTime |-> elapsedSeconds,
        returnTime |-> IF type = "yellow" THEN elapsedSeconds + SinBinSeconds
                       ELSE Undefined,
        returned |-> FALSE])
  /\ UNCHANGED << homeScore, awayScore, scoreEvents, players, substitutionEvents,
                  systemEvents, cardReturnEvents, currentHalf, elapsedSeconds,
                  injuryTime, isRunning, lastTryTeam, matchStarted, currentMatchId >>
  /\ UNCHANGED saveVars

AddCard(team, player, type, ts) ==
  /\ matchStarted
  /\ addCard(team, player, type, ts)

addSubstitution(team, offPlayerId, onPlayerId, onPlayer, ts) ==
  LET hasOnPlayer == onPlayerId \in Ids(players) IN
  /\ Draw(ts)
  /\ substitutionEvents' = Append(substitutionEvents,
       [id |-> nextId, timestamp |-> ts, team |-> team,
        offPlayerId |-> offPlayerId, onPlayerId |-> onPlayerId,
        half |-> currentHalf, minute |-> MinuteOf(elapsedSeconds),
        matchTime |-> elapsedSeconds])
  /\ players' = IF ~hasOnPlayer /\ onPlayer # << >>
                THEN Append(players, onPlayer[1]) ELSE players
  /\ UNCHANGED << homeScore, awayScore, scoreEvents, cards, systemEvents,
                  cardReturnEvents, currentHalf, elapsedSeconds, injuryTime,
                  isRunning, lastTryTeam, matchStarted, currentMatchId >>
  /\ UNCHANGED saveVars

AddSubstitution(team, offPlayerId, onPlayerId, onPlayer, ts) ==
  /\ matchStarted
  /\ addSubstitution(team, offPlayerId, onPlayerId, onPlayer, ts)

removeCard(cardId) ==
  /\ cards' = Filter(cards, LAMBDA c : c.id # cardId)
  /\ UNCHANGED << homeScore, awayScore, scoreEvents, players, substitutionEvents,
                  systemEvents, cardReturnEvents, currentHalf, elapsedSeconds,
                  injuryTime, isRunning, lastTryTeam, matchStarted, currentMatchId >>
  /\ UNCHANGED << envVars, saveVars >>

RemoveCard(cardId) ==
  /\ matchStarted
  /\ removeCard(cardId)

removeSubstitution(subId) ==
  /\ substitutionEvents' = Filter(substitutionEvents, LAMBDA s : s.id # subId)
  /\ UNCHANGED << homeScore, awayScore, scoreEvents, cards, players, systemEvents,
                  cardReturnEvents, currentHalf, elapsedSeconds, injuryTime,
                  isRunning, lastTryTeam, matchStarted, currentMatchId >>
  /\ UNCHANGED << envVars, saveVars >>

RemoveSubstitution(subId) ==
  /\ matchStarted
  /\ removeSubstitution(subId)

returnFromSinBin(cardId, ts) ==
  LET found == FindById(cards, cardId) IN
  IF found = << >>
  THEN UNCHANGED vars
  ELSE LET card == found[1] IN
    /\ Draw(ts)
    /\ cards' = MapById(cards, cardId, LAMBDA c : [c EXCEPT !.returned = TRUE])
    /\ cardReturnEvents' = Append(cardReturnEvents,
         [id |-> nextId, timestamp |-> ts, cardId |-> cardId, team |-> card.team,
          playerId |-> card.player, matchTime |-> elapsedSeconds])
    /\ UNCHANGED << homeScore, awayScore, scoreEvents, players, substitutionEvents,
                    systemEvents, currentHalf, elapsedSeconds, injuryTime,
                    isRunning, lastTryTeam, matchStarted, currentMatchId >>
    /\ UNCHANGED saveVars

ReturnFromSinBin(cardId, ts) ==
  /\ matchStarted
  /\ returnFromSinBin(cardId, ts)

\* undo: lastX?.timestamp || 0
lastTime(events) == IF events = << >> THEN 0 ELSE events[Len(events)].timestamp

\* mutant of undoBranch: the cards are left out of the comparison
undoBranch_IgnoreCards(events, cs, subs) ==
  LET lastEventTime == lastTime(events)
      lastSubTime == lastTime(subs)
  IN IF lastSubTime >= lastEventTime /\ subs # << >>
     THEN "substitution"
     ELSE IF events # << >>
     THEN "score"
     ELSE IF cs # << >> THEN "card" ELSE "none"

\* undo: which list loses its last entry ("none" when all three are empty)
undoBranch(events, cs, subs) ==
  LET lastEventTime == lastTime(events)
      lastCardTime == lastTime(cs)
      lastSubTime == lastTime(subs)
  IN IF lastSubTime >= lastEventTime /\ lastSubTime >= lastCardTime /\ subs # << >>
     THEN "substitution"
     ELSE IF lastEventTime > lastCardTime /\ lastEventTime > lastSubTime
             /\ events # << >>
     THEN "score"
     ELSE IF cs # << >> THEN "card" ELSE "none"

\* undo: lastTryTeam after the last score event is dropped
lastTryTeamAfterUndo(events) ==
  LET lastEvent == events[Len(events)] IN
  IF lastEvent.type = "conversion" THEN lastEvent.team
  ELSE IF Len(events) >= 2 /\ events[Len(events) - 1].type = "try"
       THEN events[Len(events) - 1].team
       ELSE NoTeam

\* mutant of scoreAdjustment: the points are taken back also for a pending event
scoreAdjustment_IgnorePending(lastEvent) == lastEvent.points

\* undo: the points taken back for the dropped score event
scoreAdjustment(lastEvent) == IF lastEvent.pending THEN 0 ELSE lastEvent.points

undo ==
  LET branch == undoBranch(scoreEvents, cards, substitutionEvents) IN
  /\ CASE branch = "substitution" ->
            /\ substitutionEvents' = DropLast(substitutionEvents)
            /\ UNCHANGED << homeScore, awayScore, scoreEvents, cards, lastTryTeam >>
       [] branch = "score" ->
            LET lastEvent == scoreEvents[Len(scoreEvents)] IN
            /\ homeScore' = IF lastEvent.team = "home"
                            THEN homeScore - scoreAdjustment(lastEvent)
                            ELSE homeScore
            /\ awayScore' = IF lastEvent.team # "home"
                            THEN awayScore - scoreAdjustment(lastEvent)
                            ELSE awayScore
            /\ scoreEvents' = DropLast(scoreEvents)
            /\ lastTryTeam' = lastTryTeamAfterUndo(scoreEvents)
            /\ UNCHANGED << cards, substitutionEvents >>
       [] branch = "card" ->
            /\ cards' = DropLast(cards)
            /\ UNCHANGED << homeScore, awayScore, scoreEvents, substitutionEvents,
                            lastTryTeam >>
       [] OTHER ->
            UNCHANGED << homeScore, awayScore, scoreEvents, cards,
                         substitutionEvents, lastTryTeam >>
  /\ UNCHANGED << players, systemEvents, cardReturnEvents, currentHalf,
                  elapsedSeconds, injuryTime, isRunning, matchStarted,
                  currentMatchId >>
  /\ UNCHANGED << envVars, saveVars >>

Undo ==
  /\ matchStarted
  /\ undo

(* ------------------------------ the clock ------------------------------ *)
\* the elapsed times at which the model looks at the match: the first seconds
\* of a half and the seconds around the end of a sin bin begun in them
ClockSamples ==
  (0..MaxEarly) \cup ((SinBinSeconds - 1)..(SinBinSeconds + MaxEarly + MaxLate))

toggleTimer ==
  /\ isRunning' = ~isRunning
  /\ UNCHANGED << homeScore, awayScore, scoreEvents, cards, players,
                  substitutionEvents, systemEvents, cardReturnEvents, currentHalf,
                  elapsedSeconds, injuryTime, lastTryTeam, matchStarted,
                  currentMatchId >>
  /\ UNCHANGED << envVars, saveVars >>

ToggleTimer ==
  /\ matchStarted
  /\ toggleTimer

\* mutant of tick: the clock stops at the end of regular time
tick_Capped(n) ==
  IF ~isRunning
  THEN UNCHANGED vars
  ELSE
    /\ elapsedSeconds' = IF elapsedSeconds + n > halfDuration
                         THEN halfDuration ELSE elapsedSeconds + n
    /\ UNCHANGED << homeScore, awayScore, scoreEvents, cards, players,
                    substitutionEvents, systemEvents, cardReturnEvents, currentHalf,
                    injuryTime, isRunning, lastTryTeam, matchStarted,
                    currentMatchId >>
    /\ UNCHANGED << envVars, saveVars >>

\* tick, fired n times in a row by the interval timer of useTimer
tick(n) ==
  IF ~isRunning
  THEN UNCHANGED vars
  ELSE
    /\ elapsedSeconds' = elapsedSeconds + n
    /\ UNCHANGED << homeScore, awayScore, scoreEvents, cards, players,
                    substitutionEvents, systemEvents, cardReturnEvents, currentHalf,
                    injuryTime, isRunning, lastTryTeam, matchStarted,
                    currentMatchId >>
    /\ UNCHANGED << envVars, saveVars >>

Tick ==
  \E target \in ClockSamples :
    /\ target > elapsedSeconds
    /\ tick(target - elapsedSeconds)

addInjuryTime ==
  /\ injuryTime' = injuryTime + InjuryIncrement
  /\ UNCHANGED << homeScore, awayScore, scoreEvents, cards, players,
                  substitutionEvents, systemEvents, cardReturnEvents, currentHalf,
                  elapsedSeconds, isRunning, lastTryTeam, matchStarted,
                  currentMatchId >>
  /\ UNCHANGED << envVars, saveVars >>

\* addInjuryTime on a started match, up to MaxInjury minutes
AddInjuryTime ==
  /\ matchStarted
  /\ injuryTime < MaxInjury * InjuryIncrement
  /\ addInjuryTime

\* the values of elapsedSeconds at which the clock is observed around the end
\* of a half: its first seconds, the last second of regular time and overtime
HalfSamples ==
  (0..MaxEarly) \cup ((halfDuration - 1)..(halfDuration + MaxLate))

\* the interval timer firing until a later observed second: once when that is
\* the next second, as from halfDuration - 1 to halfDuration
TickHalf ==
  /\ matchStarted
  /\ \E target \in HalfSamples :
       /\ target > elapsedSeconds
       /\ tick(target - elapsedSeconds)

\* mutant of nextHalf: the half-time event carries the number of the new half
nextHalf_NewHalfTag(ts) ==
  /\ Draw(ts)
  /\ systemEvents' = Append(systemEvents,
       [id |-> nextId, timestamp |-> ts, type |-> "half-time",
        half |-> currentHalf + 1, matchTime |-> elapsedSeconds])
  /\ currentHalf' = currentHalf + 1
  /\ elapsedSeconds' = 0
  /\ injuryTime' = 0
  /\ isRunning' = FALSE
  /\ UNCHANGED << homeScore, awayScore, scoreEvents, cards, players,
                  substitutionEvents, cardReturnEvents, lastTryTeam, matchStarted,
                  currentMatchId >>
  /\ UNCHANGED saveVars

nextHalf(ts) ==
  /\ Draw(ts)
  /\ systemEvents' = Append(systemEvents,
       [id |-> nextId, timestamp |-> ts, type |-> "half-time",
        half |-> currentHalf, matchTime |-> elapsedSeconds])
  /\ currentHalf' = currentHalf + 1
  /\ elapsedSeconds' = 0
  /\ injuryTime' = 0
  /\ isRunning' = FALSE
  /\ UNCHANGED << homeScore, awayScore, scoreEvents, cards, players,
                  substitutionEvents, cardReturnEvents, lastTryTeam, matchStarted,
                  currentMatchId >>
  /\ UNCHANGED saveVars

NextHalf(ts) ==
  /\ matchStarted
  /\ currentHalf < MaxHalf
  /\ nextHalf(ts)


(* ------------------- ending a match and saving it ---------------------- *)
\* stateToMatchSnapshot: the fields of the store the snapshot keeps
stateToMatchSnapshot ==
  [homeScore |-> homeScore, awayScore |-> awayScore, currentHalf |-> currentHalf,
   elapsedSeconds |-> elapsedSeconds, injuryTime |-> injuryTime,
   scoreEvents |-> scoreEvents, cards |-> cards,
   substitutionEvents |-> substitutionEvents, systemEvents |-> systemEvents,
   playerIds |-> [i \in 1..Len(players) |-> players[i].id]]

RECURSIVE InsertByTimestamp_Descending(_, _)
\* mutant of InsertByTimestamp: the log is sorted latest first
InsertByTimestamp_Descending(ev, s) ==
  IF s = << >> THEN << ev >>
  ELSE IF ev.timestamp > Head(s).timestamp THEN << ev >> \o s
       ELSE << Head(s) >> \o InsertByTimestamp_Descending(ev, Tail(s))

\* log.sort((a, b) => a.timestamp - b.timestamp): stable
RECURSIVE InsertByTimestamp(_, _)
InsertByTimestamp(ev, s) ==
  IF s = << >> THEN << ev >>
  ELSE IF ev.timestamp < Head(s).timestamp THEN << ev >> \o s
       ELSE << Head(s) >> \o InsertByTimestamp(ev, Tail(s))

RECURSIVE SortByTimestamp(_)
SortByTimestamp(s) ==
  IF s = << >> THEN << >>
  ELSE InsertByTimestamp(s[Len(s)], SortByTimestamp(DropLast(s)))

buildLogFromSnapshot(sn) ==
  LET scoreLog == [i \in 1..Len(sn.scoreEvents) |->
        LET e == sn.scoreEvents[i] IN
        [id |-> e.id, timestamp |-> e.timestamp, type |-> "score", team |-> e.team,
         scoreType |-> e.type, points |-> e.points, playerId |-> e.player,
         pending |-> e.pending, half |-> e.half, matchTime |-> e.matchTime]]
      cardLog == [i \in 1..Len(sn.cards) |->
        LET c == sn.cards[i] IN
        [id |-> c.id, timestamp |-> c.timestamp, type |-> "card", team |-> c.team,
         cardType |-> c.type, playerId |-> c.player, returned |-> c.returned,
         returnTime |-> c.returnTime, half |-> c.half, matchTime |-> c.matchTime]]
      subLog == [i \in 1..Len(sn.substitutionEvents) |->
        LET u == sn.substitutionEvents[i] IN
        [id |-> u.id, timestamp |-> u.timestamp, type |-> "substitution",
         team |-> u.team, offPlayerId |-> u.offPlayerId,
         onPlayerId |-> u.onPlayerId, half |-> u.half, matchTime |-> u.matchTime]]
      systemLog == [i \in 1..Len(sn.systemEvents) |->
        LET e == sn.systemEvents[i] IN
        [id |-> e.id, timestamp |-> e.timestamp, type |-> e.type, half |-> e.half,
         matchTime |-> e.matchTime]]
  IN SortByTimestamp(scoreLog \o cardLog \o subLog \o systemLog)

\* saveFinishedMatch: the match record written to db.matches
saveFinishedMatch(sn, matches) ==
  Append(matches,
    [id |-> Len(matches) + 1, homeScore |-> sn.homeScore, awayScore |-> sn.awayScore,
     currentHalf |-> sn.currentHalf, elapsedSeconds |-> sn.elapsedSeconds,
     injuryTime |-> sn.injuryTime, status |-> "completed",
     log |-> buildLogFromSnapshot(sn), playerIds |-> sn.playerIds])

\* updatePlayerStatsFromLog: the deltas a log gives one player
RECURSIVE pointsDelta(_, _)
pointsDelta(log, id) ==
  IF log = << >> THEN 0
  ELSE LET ev == Head(log) IN
       pointsDelta(Tail(log), id)
       + (IF ev.type = "score" /\ ev.playerId = id /\ ~ev.pending THEN ev.points ELSE 0)

RECURSIVE triesDelta(_, _)
triesDelta(log, id) ==
  IF log = << >> THEN 0
  ELSE LET ev == Head(log) IN
       triesDelta(Tail(log), id)
       + (IF ev.type = "score" /\ ev.playerId = id /\ ~ev.pending
             /\ ev.scoreType \in {"try", "penalty-try"} THEN 1 ELSE 0)

RECURSIVE cardDelta(_, _, _)
cardDelta(log, id, cardType) ==
  IF log = << >> THEN 0
  ELSE LET ev == Head(log) IN
       cardDelta(Tail(log), id, cardType)
       + (IF ev.type = "card" /\ ev.playerId = id /\ ev.cardType = cardType THEN 1 ELSE 0)

\* the record updatePlayer writes for a player read as `player`
updatedStats(player, log, id) ==
  [gamesPlayed |-> player.gamesPlayed + 1,
   tries |-> player.tries + triesDelta(log, id),
   points |-> player.points + pointsDelta(log, id),
   yellowCards |-> player.yellowCards + cardDelta(log, id, "yellow"),
   redCards |-> player.redCards + cardDelta(log, id, "red")]

\* End match, up to the await: the confirm dialog is accepted and the snapshot
\* of the store is taken. The button is there while the match screen is shown,
\* also while an earlier click is still waiting for its save.
EndMatchClick(h) ==
  /\ matchStarted
  /\ endPc[h] = "idle"
  /\ \A g \in Handlers : g < h => endPc[g] # "idle"
  /\ snap' = [snap EXCEPT ![h] = << stateToMatchSnapshot >>]
  /\ endPc' = [endPc EXCEPT ![h] = "saving"]
  /\ UNCHANGED << storeVars, envVars, statsAt, statsGot, dbMatches, dbPlayers >>

\* saveFinishedMatch up to `await db.matches.add(match)`
AddMatchRecord(h) ==
  /\ endPc[h] = "saving"
  /\ dbMatches' = saveFinishedMatch(snap[h][1], dbMatches)
  /\ endPc' = [endPc EXCEPT ![h] = "stats"]
  /\ statsAt' = [statsAt EXCEPT ![h] = 1]
  /\ UNCHANGED << storeVars, envVars, snap, statsGot, dbPlayers >>

\* updatePlayerStatsFromLog: `await getPlayer(id)` of the next player
GetPlayer(h) ==
  /\ endPc[h] = "stats"
  /\ statsGot[h] = << >>
  /\ statsAt[h] <= Len(snap[h][1].playerIds)
  /\ statsGot' = [statsGot EXCEPT ![h] = << dbPlayers[snap[h][1].playerIds[statsAt[h]]] >>]
  /\ UNCHANGED << storeVars, envVars, endPc, snap, statsAt, dbMatches, dbPlayers >>

\* updatePlayerStatsFromLog: `await updatePlayer(id, ...)` with the record read
UpdatePlayer(h) ==
  /\ endPc[h] = "stats"
  /\ statsGot[h] # << >>
  /\ LET id == snap[h][1].playerIds[statsAt[h]] IN
     dbPlayers' = [dbPlayers EXCEPT ![id] =
       updatedStats(statsGot[h][1], buildLogFromSnapshot(snap[h][1]), id)]
  /\ statsGot' = [statsGot EXCEPT ![h] = << >>]
  /\ statsAt' = [statsAt EXCEPT ![h] = @ + 1]
  /\ UNCHANGED << storeVars, envVars, endPc, snap, dbMatches >>

\* the awaited saveFinishedMatch resolves
SaveSucceeds(h) ==
  /\ endPc[h] = "stats"
  /\ statsGot[h] = << >>
  /\ statsAt[h] > Len(snap[h][1].playerIds)
  /\ endPc' = [endPc EXCEPT ![h] = "saved"]
  /\ UNCHANGED << storeVars, envVars, snap, statsAt, statsGot, dbMatches, dbPlayers >>

\* the awaited saveFinishedMatch rejects (a database call throws): the catch
\* block logs the error
SaveFails(h) ==
  /\ endPc[h] \in {"saving", "stats"}
  /\ endPc' = [endPc EXCEPT ![h] = "failed"]
  /\ statsGot' = [statsGot EXCEPT ![h] = << >>]
  /\ UNCHANGED << storeVars, envVars, snap, statsAt, dbMatches, dbPlayers >>

endMatch(ts) ==
  /\ Draw(ts)
  /\ matchStarted' = FALSE
  /\ homeScore' = 0
  /\ awayScore' = 0
  /\ scoreEvents' = << >>
  /\ cards' = << >>
  /\ players' = << >>
  /\ substitutionEvents' = << >>
  /\ systemEvents' = Append(systemEvents,
       [id |-> nextId, timestamp |-> ts, type |-> "match-end",
        half |-> currentHalf, matchTime |-> elapsedSeconds])
  /\ cardReturnEvents' = << >>
  /\ currentHalf' = 1
  /\ elapsedSeconds' = 0
  /\ injuryTime' = 0
  /\ isRunning' = FALSE
  /\ lastTryTeam' = NoTeam
  /\ currentMatchId' = NoMatchId

\* End match, after the await: endMatch() and the navigation away
EndMatchCall(h, ts) ==
  /\ endPc[h] \in {"saved", "failed"}
  /\ endMatch(ts)
  /\ endPc' = [endPc EXCEPT ![h] = "idle"]
  /\ snap' = [snap EXCEPT ![h] = << >>]
  /\ statsAt' = [statsAt EXCEPT ![h] = 0]
  /\ UNCHANGED << statsGot, dbMatches, dbPlayers >>


(* --------------------------- specifications ---------------------------- *)
\* the ids in use so far, and one that no event carries
KnownIds == 1..nextId

\* Date.now() of a call made at least a millisecond after the previous one
LaterStamps == {now + 1}

\* the events listed under "TMO review", which carry the approve and reject buttons
PendingIds == {e.id : e \in {d \in Range(scoreEvents) : d.pending}}

\* the choices of the assign-player picker for a score event: a player of the
\* event's team, or none
AssignChoices(id) ==
  {NoPlayer} \cup {p.id : p \in {q \in Range(players) :
     \E e \in Range(scoreEvents) : e.id = id /\ e.team = q.team /\ q.isStarter}}

\* score events that carry a player
Assigned == {e \in Range(scoreEvents) : e.player # NoPlayer}

SetupScore ==
  \/ SetPlayers
  \/ \E ts \in LaterStamps : StartMatch(ts)

ScoreOps ==
  \/ \E team \in Teams, type \in ScoreTypes, pending \in BOOLEAN, ts \in LaterStamps :
       AddScore(team, type, NoPlayer, pending, ts)
  \/ \E id \in PendingIds \cup {nextId}, approved \in BOOLEAN :
       ResolvePendingEvent(id, approved)
  \/ \E id \in KnownIds : \E p \in AssignChoices(id) :
       /\ Cardinality(Assigned) < MaxAssigned \/ p = NoPlayer
       /\ UpdateScoreEventPlayer(id, p)
  \/ \E id \in KnownIds : RemoveScoreEvent(id)
  \/ Undo

\* the score ledger alone: addScore, resolvePendingEvent, removeScoreEvent,
\* updateScoreEventPlayer and undo on a started match
NextScore == SetupScore \/ ScoreOps
SpecScore == Init /\ [][NextScore]_vars


\* the ids of the cards and of the substitutions in the ledger
CardIds == {c.id : c \in Range(cards)}
SubIds == {s.id : s \in Range(substitutionEvents)}

\* the players offered by the card picker of a team (playersForCard)
TeamIds(team) == {p.id : p \in {q \in Range(players) : q.team = team}}

\* SubstitutionModal.handleConfirm with the outgoing player picked from the
\* team's onPitch list and the incoming one from its onBench list
SubstitutionConfirm(team, offId, onId, ts) ==
  LET squad == getSquadStatus(team, players, substitutionEvents, cards, elapsedSeconds)
      onPlayer == Filter(squad.onBench, LAMBDA p : p.id = onId)
  IN /\ offId \in Ids(squad.onPitch)
     /\ onId \in Ids(squad.onBench)
     /\ AddSubstitution(team, offId, onId, << onPlayer[1] >>, ts)

SetupSquad ==
  \/ SetPlayers
  \/ \E ts \in LaterStamps : StartMatch(ts)

SquadOps ==
  \/ \E team \in Teams : \E player \in TeamIds(team), type \in CardTypes,
        ts \in LaterStamps : AddCard(team, player, type, ts)
  \/ \E team \in Teams : \E offId \in TeamIds(team), onId \in TeamIds(team),
        ts \in LaterStamps : SubstitutionConfirm(team, offId, onId, ts)
  \/ \E id \in CardIds \cup {nextId}, ts \in LaterStamps : ReturnFromSinBin(id, ts)
  \/ \E id \in CardIds \cup {nextId} : RemoveCard(id)
  \/ \E id \in SubIds \cup {nextId} : RemoveSubstitution(id)

ClockOps ==
  \/ ToggleTimer
  \/ Tick
  \/ \E ts \in LaterStamps : NextHalf(ts)

\* cards, substitutions and the match clock on a started match
NextSquad == SetupSquad \/ SquadOps \/ ClockOps
SpecSquad == Init /\ [][NextSquad]_vars


\* the substitutions and cards getSquadStatus may be handed: any pair of
\* roster ids under either team, and any card of a player of the card's team
SubChoices == Teams \X Ids(Roster) \X Ids(Roster)
CardChoices ==
  {ch \in Teams \X Ids(Roster) \X CardTypes \X BOOLEAN :
     \E p \in Range(Roster) : p.id = ch[2] /\ p.team = ch[1]}

\* the ledger records of the drawn choices, numbered after the match-start event
DrawnSubs(ch) ==
  [i \in 1..Len(ch) |->
     [id |-> 1 + i, timestamp |-> 1 + i, team |-> ch[i][1], offPlayerId |-> ch[i][2],
      onPlayerId |-> ch[i][3], half |-> 1, minute |-> 0, matchTime |-> 0]]
DrawnCards(ch, n) ==
  [i \in 1..Len(ch) |->
     [id |-> 1 + n + i, timestamp |-> 1 + n + i, team |-> ch[i][1],
      player |-> ch[i][2], type |-> ch[i][3], half |-> 1, minute |-> 0,
      matchTime |-> 0,
      returnTime |-> IF ch[i][3] = "yellow" THEN SinBinSeconds ELSE Undefined,
      returned |-> ch[i][4]]]

\* a started match whose ledger of substitutions and cards, and whose clock,
\* are drawn: the inputs of getSquadStatus
InitStatus ==
  \E n \in 0..MaxDrawn : \E k \in 0..(MaxDrawn - n) :
    \E sc \in [1..n -> SubChoices], cc \in [1..k -> CardChoices] :
      /\ homeScore = 0
      /\ awayScore = 0
      /\ scoreEvents = << >>
      /\ cards = DrawnCards(cc, n)
      /\ players = Roster
      /\ substitutionEvents = DrawnSubs(sc)
      /\ systemEvents = << [id |-> 1, timestamp |-> 1, type |-> "match-start",
                            half |-> 1, matchTime |-> 0] >>
      /\ cardReturnEvents = << >>
      /\ currentHalf = 1
      /\ elapsedSeconds \in ClockSamples
      /\ injuryTime = 0
      /\ isRunning = FALSE
      /\ lastTryTeam = NoTeam
      /\ matchStarted = TRUE
      /\ currentMatchId = NoMatchId
      /\ now = 1 + n + k
      /\ nextId = 2 + n + k
      /\ endPc = [h \in Handlers |-> "idle"]
      /\ snap = [h \in Handlers |-> << >>]
      /\ statsAt = [h \in Handlers |-> 0]
      /\ statsGot = [h \in Handlers |-> << >>]
      /\ dbMatches = << >>
      /\ dbPlayers = [id \in {Roster[i].id : i \in 1..Len(Roster)} |-> NewPlayerStats]

\* the substitution dialog, which picks from the lists of getSquadStatus, and
\* the clock, on which the lists are computed again
NextStatus ==
  \/ \E team \in Teams : \E offId \in TeamIds(team), onId \in TeamIds(team),
        ts \in LaterStamps : SubstitutionConfirm(team, offId, onId, ts)
  \/ ToggleTimer
  \/ Tick
SpecStatus == InitStatus /\ [][NextStatus]_vars


\* the ids of the score events in the ledger
ScoreIds == {e.id : e \in Range(scoreEvents)}

SetupUndo ==
  \/ SetPlayers
  \/ \E ts \in Stamps : StartMatch(ts)

LedgerOps ==
  \/ \E team \in Teams, type \in ScoreTypes, ts \in Stamps :
       AddScore(team, type, NoPlayer, FALSE, ts)
  \/ \E team \in Teams : \E player \in TeamIds(team), type \in CardTypes,
        ts \in Stamps : AddCard(team, player, type, ts)
  \/ \E team \in Teams : \E offId \in TeamIds(team), onId \in TeamIds(team),
        ts \in Stamps : SubstitutionConfirm(team, offId, onId, ts)
  \/ \E id \in ScoreIds : RemoveScoreEvent(id)
  \/ \E id \in CardIds : RemoveCard(id)
  \/ \E id \in SubIds : RemoveSubstitution(id)
  \/ Undo

\* the three event lists under quick undo and the per-event remove buttons,
\* with events that may be created within the same millisecond
NextUndo == SetupUndo \/ LedgerOps
SpecUndo == Init /\ [][NextUndo]_vars


SetupEnd ==
  \/ SetPlayers
  \/ \E ts \in LaterStamps : StartMatch(ts)

\* the End match button: the click up to the await, the database calls of the
\* awaited save, its two outcomes, and the rest of the handler
EndOps(h) ==
  \/ EndMatchClick(h)
  \/ AddMatchRecord(h)
  \/ GetPlayer(h)
  \/ UpdatePlayer(h)
  \/ SaveSucceeds(h)
  \/ SaveFails(h)
  \/ \E ts \in LaterStamps : EndMatchCall(h, ts)

\* matches played and ended one after the other with one click on End match
\* each, the team sections staying usable while the save is awaited
NextEnd ==
  \/ SetupEnd
  \/ \E team \in Teams, pending \in BOOLEAN, ts \in LaterStamps :
       AddScore(team, "try", NoPlayer, pending, ts)
  \/ EndOps(1)
SpecEnd == Init /\ [][NextEnd]_vars


SetupLog ==
  \/ SetPlayers
  \/ \E ts \in LaterStamps : StartMatch(ts)

\* the score ledger built on a drawn ledger of substitutions and cards, and the
\* return of carded players
LogLedgerOps ==
  \/ \E team \in Teams, pending \in BOOLEAN, ts \in LaterStamps :
       AddScore(team, "try", NoPlayer, pending, ts)
  \/ \E id \in PendingIds, approved \in BOOLEAN : ResolvePendingEvent(id, approved)
  \/ \E id \in CardIds, ts \in LaterStamps : ReturnFromSinBin(id, ts)

\* no End-match click handler is under way
NoSaveInFlight == \A h \in Handlers : endPc[h] = "idle"

\* matches whose ledger is built before the one click on End match
NextLog ==
  \/ SetupLog
  \/ NoSaveInFlight /\ LogLedgerOps
  \/ EndOps(1)
SpecLog == InitStatus /\ [][NextLog]_vars


\* the clock panel of a match: start and pause, the seconds of the timer,
\* injury time and the change of half
NextClock ==
  \/ SetupEnd
  \/ ToggleTimer
  \/ TickHalf
  \/ AddInjuryTime
  \/ \E ts \in LaterStamps : NextHalf(ts)
SpecClock == Init /\ [][NextClock]_vars


\* the operations of useMatchStore called one after the other, matches being
\* started and ended in turn and the other operations called in any order, as
\* the store itself allows: none of them looks at matchStarted
CoreOps ==
  \/ ~matchStarted /\ \E ts \in LaterStamps : startMatch(ts)
  \/ matchStarted /\ \E ts \in LaterStamps : endMatch(ts) /\ UNCHANGED saveVars
  \/ \E pending \in BOOLEAN, ts \in LaterStamps :
       addScore("home", "try", NoPlayer, pending, ts)
  \/ \E ts \in LaterStamps : addCard("home", "h1", "yellow", ts)
  \/ \E ts \in LaterStamps : addSubstitution("home", "h1", "h2", << >>, ts)
  \/ \E id \in CardIds, ts \in LaterStamps : returnFromSinBin(id, ts)
  \/ \E id \in PendingIds, approved \in BOOLEAN : resolvePendingEvent(id, approved)
  \/ \E id \in ScoreIds : removeScoreEvent(id)
  \/ \E id \in CardIds : removeCard(id)
  \/ \E id \in SubIds : removeSubstitution(id)
  \/ \E id \in ScoreIds : updateScoreEventPlayer(id, "h1")
  \/ undo
  \/ currentHalf < MaxHalf /\ \E ts \in LaterStamps : nextHalf(ts)
  \/ toggleTimer
  \/ \E n \in {1, halfDuration} :
       /\ elapsedSeconds + n \in halfDuration..(halfDuration + MaxTicks)
       /\ tick(n)
  \/ injuryTime < MaxInjury * InjuryIncrement /\ addInjuryTime

SpecCore == Init /\ [][CoreOps]_vars


\* a try with its scorer, a yellow card and the change of half, before End
\* match is clicked
SaveLedgerOps ==
  \/ \E pending \in BOOLEAN, ts \in LaterStamps :
       AddScore("home", "try", "h1", pending, ts)
  \/ \E ts \in LaterStamps : AddCard("away", "a1", "yellow", ts)
  \/ \E ts \in LaterStamps : NextHalf(ts)

\* matches ended with one or more clicks on End match, the later ones while
\* the save of an earlier one is awaited, on a database that does not fail
NextSave ==
  \/ SetupEnd
  \/ NoSaveInFlight /\ SaveLedgerOps
  \/ \E h \in Handlers : EndMatchClick(h)
  \/ \E h \in Handlers : AddMatchRecord(h)
  \/ \E h \in Handlers : GetPlayer(h)
  \/ \E h \in Handlers : UpdatePlayer(h)
  \/ \E h \in Handlers : SaveSucceeds(h)
  \/ \E h \in Handlers, ts \in LaterStamps : EndMatchCall(h, ts)
SpecSave == Init /\ [][NextSave]_vars


(* ----------------------- claims on the score ledger -------------------- *)
\* the points of the non-pending score events of a team
RECURSIVE ApprovedPoints(_, _)
ApprovedPoints(events, team) ==
  IF events = << >> THEN 0
  ELSE (IF Head(events).team = team /\ ~Head(events).pending
        THEN Head(events).points ELSE 0) + ApprovedPoints(Tail(events), team)

ScoreOf(team) == IF team = "home" THEN homeScore ELSE awayScore
Other(team) == IF team = "home" THEN "away" ELSE "home"
Approved(events) == Filter(events, LAMBDA e : ~e.pending)

\* the most recent non-pending score event is a try or penalty-try by team
LastApprovedIsTryBy(team) ==
  LET a == Approved(scoreEvents) IN
  /\ a # << >>
  /\ a[Len(a)].team = team
  /\ a[Len(a)].type \in {"try", "penalty-try"}

\* the step is a call addScore(team, type, _, pending) on a started match
IsAddScore(team, type, pending) ==
  \E ts \in {now, now + 1} : AddScore(team, type, NoPlayer, pending, ts)

\* C1: in every reachable state homeScore is the sum of the points of the
\* non-pending home score events, and awayScore that of the away events.
C1_ScoreConsistency ==
  /\ homeScore = ApprovedPoints(scoreEvents, "home")
  /\ awayScore = ApprovedPoints(scoreEvents, "away")

\* C1 witness: events have been added and taken out again: the home team has
\* points, a pending event is in the ledger, and the first event recorded is gone
C1_Witness ==
  /\ homeScore > 0
  /\ \E e \in Range(scoreEvents) : e.pending
  /\ scoreEvents[1].id > 2
  /\ lastTryTeam = "home"

\* C2 (as claimed): a conversion is refused, with the ledger and both scores
\* unchanged, whenever the most recent non-pending score event is not a try or
\* penalty-try by the same team.
C2_ConversionRefused ==
  [][\A team \in Teams, pending \in BOOLEAN :
       (~LastApprovedIsTryBy(team) /\ IsAddScore(team, "conversion", pending))
         => UNCHANGED << scoreEvents, homeScore, awayScore >>]_vars

\* a call addScore(team, 'conversion') made now would append a conversion and
\* raise the team's score by 2
ConversionRecorded(team) ==
  ENABLED (/\ addScore(team, "conversion", NoPlayer, FALSE, now + 1)
           /\ Len(scoreEvents') = Len(scoreEvents) + 1
           /\ scoreEvents'[Len(scoreEvents')].type = "conversion"
           /\ ScoreOf(team)' = ScoreOf(team) + 2)

\* C3 (as claimed): whenever the most recent non-pending score event is a try
\* or penalty-try by a team, that team's conversion is recorded (+2) and the
\* other team's conversion is refused.
C3_ConversionAfterOwnTry ==
  \A team \in Teams :
    (matchStarted /\ nextId <= MaxIds /\ LastApprovedIsTryBy(team))
      => /\ ConversionRecorded(team)
         /\ ~ConversionRecorded(Other(team))


\* the step appends one pending score event of the given team and type
AppendsPending(team, type) ==
  /\ Len(scoreEvents') = Len(scoreEvents) + 1
  /\ SubSeq(scoreEvents', 1, Len(scoreEvents)) = scoreEvents
  /\ LET e == scoreEvents'[Len(scoreEvents')] IN
       e.pending /\ e.team = team /\ e.type = type /\ e.points = Points(type)

EventOf(events, id) == CHOOSE e \in Range(events) : e.id = id

\* C9: approving a pending event keeps it in the ledger with the pending flag
\* cleared, adds its points to its team's score only and sets lastTryTeam to
\* its team when it is a try or penalty-try; rejecting it removes it from the
\* ledger and changes neither score.
C9_ResolvePending ==
  [][\A id \in PendingIds :
       LET e == EventOf(scoreEvents, id) IN
       /\ ResolvePendingEvent(id, TRUE)
            => /\ Len(scoreEvents') = Len(scoreEvents)
               /\ \A i \in 1..Len(scoreEvents) :
                    IF scoreEvents[i].id = id
                    THEN /\ ~scoreEvents'[i].pending
                         /\ [scoreEvents'[i] EXCEPT !.pending = TRUE] = scoreEvents[i]
                    ELSE scoreEvents'[i] = scoreEvents[i]
               /\ ScoreOf(e.team)' = ScoreOf(e.team) + Points(e.type)
               /\ ScoreOf(Other(e.team))' = ScoreOf(Other(e.team))
               /\ e.type \in {"try", "penalty-try"} => lastTryTeam' = e.team
       /\ ResolvePendingEvent(id, FALSE)
            => /\ scoreEvents' = Filter(scoreEvents, LAMBDA d : d # e)
               /\ id \notin {d.id : d \in Range(scoreEvents')}
               /\ UNCHANGED << homeScore, awayScore >>]_vars

\* C9 witness: a pending penalty-try was approved after a later penalty of the
\* other team: it counts, and lastTryTeam names its team although it is not
\* the last event of the ledger
C9_Witness ==
  /\ Len(scoreEvents) = 2
  /\ scoreEvents[1].type = "penalty-try" /\ ~scoreEvents[1].pending
  /\ scoreEvents[2].type = "penalty" /\ ~scoreEvents[2].pending
  /\ scoreEvents[2].team # scoreEvents[1].team
  /\ nextId = scoreEvents[2].id + 1
  /\ scoreEvents[2].id = scoreEvents[1].id + 1
  /\ lastTryTeam = scoreEvents[1].team
  /\ ScoreOf(scoreEvents[1].team) = 7

(* -------------------- claims on cards and the squad -------------------- *)
\* the ids of the players getSquadStatus lists on the pitch for a team, under
\* the ledger's substitutions, the cards cs and the elapsed time e
OnPitchIds(team, cs, e) ==
  Ids(getSquadStatus(team, players, substitutionEvents, cs, e).onPitch)

\* every yellow card not marked returned, taken
\* at T = matchTime, is listed as active with remaining returnTime - e and
\* keeps its player off onPitch at every e with T <= e < T + 600, and is not
\* active and excludes nobody at every e >= T + 600
SinBinWindow(cs, elapsed) ==
  \A c \in Range(cs) :
    (c.type = "yellow" /\ ~c.returned) =>
      \A e \in ClockSamples \cup {elapsed} :
        /\ (c.matchTime <= e /\ e < c.matchTime + 600) =>
             /\ c \in Range(activeSinBins(cs, e))
             /\ timeLeft(c, e) = c.returnTime - e
             /\ \A team \in Teams : c.player \notin OnPitchIds(team, cs, e)
        /\ e >= c.matchTime + 600 =>
             /\ c \notin Range(activeSinBins(cs, e))
             /\ \A team \in Teams :
                  OnPitchIds(team, cs, e)
                    = OnPitchIds(team, Filter(cs, LAMBDA d : d.id # c.id), e)

\* C4: a yellow card recorded by addCard at elapsedSeconds = T has
\* returnTime = T + 600; while it is not marked returned it is in the active
\* sin-bin list, with remaining time returnTime - e, and its player is absent
\* from onPitch at every e with T <= e < T + 600; at every e >= T + 600 it is
\* not active and no longer excludes the player from onPitch.
C4_SinBinWindow ==
  /\ [][Len(cards') > Len(cards) =>
          LET c == cards'[Len(cards')] IN
          c.type = "yellow" =>
            /\ c.matchTime = elapsedSeconds
            /\ c.returnTime = elapsedSeconds + 600
            /\ ~c.returned]_vars
  /\ [](\A c \in Range(cards) : c.type = "yellow" => c.returnTime = c.matchTime + 600)
  /\ []SinBinWindow(cards, elapsedSeconds)

\* C4 witness: a yellow card taken one second into the half has run its ten
\* minutes in that half without being returned, and its player, a starter
\* never substituted, is back on the pitch
C4_Witness ==
  \E c \in Range(cards) :
    /\ c.type = "yellow" /\ ~c.returned
    /\ c.matchTime = 1 /\ c.half = currentHalf
    /\ elapsedSeconds = c.returnTime
    /\ c \notin Range(activeSinBins(cards, elapsedSeconds))
    /\ c.player \in OnPitchIds(c.team, cards, elapsedSeconds)

\* C5: once a red card for Q is in the ledger, and while it stays there, Q is
\* not in getSquadStatus(team).onPitch in any state and at any elapsed time,
\* whatever ticks, half changes, returnFromSinBin calls or substitutions follow.
C5_RedCardExcludes ==
  \A c \in Range(cards) :
    c.type = "red" =>
      \A e \in ClockSamples \cup {elapsedSeconds} :
        c.player \notin OnPitchIds(c.team, cards, e)

\* C5 witness: a red-carded player was marked returned by returnFromSinBin and
\* then named as the incoming player of a substitution, which put the player
\* into the on-field set, and the clock has run past ten minutes
C5_Witness ==
  \E c \in Range(cards) :
    /\ c.type = "red" /\ c.returned
    /\ \E s \in Range(substitutionEvents) :
         s.team = c.team /\ s.onPlayerId = c.player /\ s.timestamp > c.timestamp
    /\ c.player \in currentlyOnPitch(c.team, players, substitutionEvents)
    /\ elapsedSeconds >= SinBinSeconds

\* the on-field set of a team, read off the ledger: a player whom substitutions
\* of the team name is on the field when the last of them brings the player on;
\* a player no substitution of the team names is on the field when a starter
OnFieldSet(team) ==
  LET subs == substitutionEvents
      names(i, id) == /\ subs[i].team = team
                      /\ (subs[i].offPlayerId = id \/ subs[i].onPlayerId = id)
      mentions(id) == {i \in 1..Len(subs) : names(i, id)}
      last(id) == CHOOSE i \in mentions(id) : \A j \in mentions(id) : j <= i
      candidates == Ids(players) \cup {s.onPlayerId : s \in Range(subs)}
  IN {id \in candidates :
        IF mentions(id) = {}
        THEN \E p \in Range(players) : p.id = id /\ p.team = team /\ p.isStarter
        ELSE subs[last(id)].onPlayerId = id}

\* the player has a red card, or a yellow card not returned whose returnTime
\* lies after e
ExcludedAt(id, e) ==
  \E c \in Range(cards) :
    /\ c.player = id
    /\ \/ c.type = "red"
       \/ c.type = "yellow" /\ ~c.returned /\ c.returnTime # Undefined
          /\ e < c.returnTime

\* the list holds each of its players once, in ascending shirt number
OrderedByNumber(s) ==
  /\ \A i, j \in 1..Len(s) : i < j => s[i].number <= s[j].number
  /\ Cardinality(Range(s)) = Len(s)

\* C6: onPitch is exactly the team's roster players in the on-field set with
\* neither a red card nor an unreturned yellow card with e < returnTime, onBench
\* is exactly the team's roster players outside the on-field set, the two are
\* disjoint and both are ordered by shirt number.
C6_SquadStatus ==
  \A team \in Teams :
    LET st == getSquadStatus(team, players, substitutionEvents, cards, elapsedSeconds)
        roster == {p \in Range(players) : p.team = team}
    IN /\ Range(st.onPitch) = {p \in roster : /\ p.id \in OnFieldSet(team)
                                             /\ ~ExcludedAt(p.id, elapsedSeconds)}
       /\ Range(st.onBench) = {p \in roster : p.id \notin OnFieldSet(team)}
       /\ Range(st.onPitch) \cap Range(st.onBench) = {}
       /\ OrderedByNumber(st.onPitch)
       /\ OrderedByNumber(st.onBench)

\* C6 witness: a substitution has both home players on the field, listed by
\* number and not in roster order, while a card keeps an away player who is
\* in the on-field set off the pitch
C6_Witness ==
  /\ Len(getSquadStatus("home", players, substitutionEvents, cards,
                        elapsedSeconds).onPitch) = 2
  /\ players[1].team = "home" /\ players[1].number > players[2].number
  /\ \E c \in Range(cards) :
       /\ c.team = "away"
       /\ c.player \in OnFieldSet("away")
       /\ c.player \notin OnPitchIds("away", cards, elapsedSeconds)

(* -------------------------- claims on undo ----------------------------- *)
\* the score events, cards and substitutions in the ledger, as id and timestamp
LedgerEntries(events, cs, subs) ==
  {<< "score", e.id, e.timestamp >> : e \in Range(events)}
    \cup {<< "card", c.id, c.timestamp >> : c \in Range(cs)}
    \cup {<< "substitution", s.id, s.timestamp >> : s \in Range(subs)}

\* the step takes the entry r, and nothing else, out of the three lists
RemovesOnly(r) ==
  /\ scoreEvents' = Filter(scoreEvents, LAMBDA e : r[1] # "score" \/ e.id # r[2])
  /\ cards' = Filter(cards, LAMBDA c : r[1] # "card" \/ c.id # r[2])
  /\ substitutionEvents' =
       Filter(substitutionEvents, LAMBDA s : r[1] # "substitution" \/ s.id # r[2])

\* undo takes out exactly one entry, one whose timestamp no other entry exceeds
UndoRemovesLatest ==
  LET entries == LedgerEntries(scoreEvents, cards, substitutionEvents) IN
  \E r \in entries :
    /\ \A q \in entries : q[3] <= r[3]
    /\ RemovesOnly(r)
    /\ LedgerEntries(scoreEvents', cards', substitutionEvents') = entries \ {r}

\* the substitution the step takes out of the ledger, if it takes one out
RemovedSubs ==
  {s \in Range(substitutionEvents) : s.id \notin {u.id : u \in Range(substitutionEvents')}}

\* replayed in order, each substitution of the team takes off a player then on
\* the field and brings on a player then off it
ChainConsistent(team) ==
  LET teamSubs == Filter(substitutionEvents, LAMBDA s : s.team = team) IN
  \A i \in 1..Len(teamSubs) :
    LET before == currentlyOnPitch(team, players, SubSeq(teamSubs, 1, i - 1)) IN
    /\ teamSubs[i].offPlayerId \in before
    /\ teamSubs[i].onPlayerId \notin before

C10_LogEndsWithMatchEnd ==
  \A h \in Handlers : snap[h] # << >> =>
    LET log == buildLogFromSnapshot(snap[h][1]) IN
    /\ log # << >>
    /\ log[Len(log)].type = "match-end"
    /\ \A i \in 1..Len(log) : log[i].timestamp <= log[Len(log)].timestamp
    /\ snap[h][1].homeScore = ApprovedPoints(snap[h][1].scoreEvents, "home")
    /\ snap[h][1].awayScore = ApprovedPoints(snap[h][1].scoreEvents, "away")

(* ---------------------- claims on the persisted log -------------------- *)
\* the log entry carries the id, the timestamp and the fields of the event
Carries(entry, e, kind) ==
  /\ entry.id = e.id
  /\ entry.timestamp = e.timestamp
  /\ CASE kind = "score" ->
             /\ entry.type = "score"
             /\ entry.team = e.team /\ entry.scoreType = e.type
             /\ entry.points = e.points /\ entry.playerId = e.player
             /\ entry.pending = e.pending
             /\ entry.half = e.half /\ entry.matchTime = e.matchTime
       [] kind = "card" ->
             /\ entry.type = "card"
             /\ entry.team = e.team /\ entry.cardType = e.type
             /\ entry.playerId = e.player /\ entry.returned = e.returned
             /\ entry.returnTime = e.returnTime
             /\ entry.half = e.half /\ entry.matchTime = e.matchTime
       [] kind = "substitution" ->
             /\ entry.type = "substitution"
             /\ entry.team = e.team /\ entry.offPlayerId = e.offPlayerId
             /\ entry.onPlayerId = e.onPlayerId
             /\ entry.half = e.half /\ entry.matchTime = e.matchTime
       [] kind = "card-return" ->
             /\ entry.type = "card-return"
             /\ entry.cardId = e.cardId /\ entry.team = e.team
             /\ entry.playerId = e.playerId /\ entry.matchTime = e.matchTime
       [] kind = "system" ->
             /\ entry.type = e.type
             /\ entry.half = e.half /\ entry.matchTime = e.matchTime

\* every event of the list has exactly one entry in the log, which carries it
AllOnceIn(log, events, kind) ==
  \A e \in Range(events) :
    /\ Cardinality({i \in 1..Len(log) : log[i].id = e.id}) = 1
    /\ \A i \in 1..Len(log) : log[i].id = e.id => Carries(log[i], e, kind)

OrderedByTimestamp(log) ==
  \A i \in 1..Len(log), j \in 1..Len(log) :
    i < j => log[i].timestamp <= log[j].timestamp

\* a click on End match by handler h takes the snapshot in this step
TakesSnapshot(h) == endPc[h] = "idle" /\ endPc'[h] = "saving"

\* C11 (as claimed): every event of the in-memory ledger at save time (score
\* events, cards, substitutions, card-return events and system events) appears
\* exactly once in the persisted log with the same id, timestamp and
\* kind-specific fields, and the log is ordered by creation timestamp.
C11_LedgerInLog ==
  [][\A h \in Handlers : TakesSnapshot(h) =>
       LET log == buildLogFromSnapshot(snap'[h][1]) IN
       /\ AllOnceIn(log, scoreEvents, "score")
       /\ AllOnceIn(log, cards, "card")
       /\ AllOnceIn(log, substitutionEvents, "substitution")
       /\ AllOnceIn(log, cardReturnEvents, "card-return")
       /\ AllOnceIn(log, systemEvents, "system")
       /\ OrderedByTimestamp(log)]_vars

\* the per-team sum of the points of the non-pending score entries of a log
RECURSIVE LogPoints(_, _)
LogPoints(log, team) ==
  IF log = << >> THEN 0
  ELSE LET ev == Head(log) IN
       (IF ev.type = "score" /\ ev.team = team /\ ~ev.pending THEN ev.points ELSE 0)
       + LogPoints(Tail(log), team)

\* the substitutions and the cards read back from the entries of a log
SubsOfLog(log) ==
  LET entries == SelectSeq(log, LAMBDA ev : ev.type = "substitution") IN
  [i \in 1..Len(entries) |->
     [id |-> entries[i].id, timestamp |-> entries[i].timestamp,
      team |-> entries[i].team, offPlayerId |-> entries[i].offPlayerId,
      onPlayerId |-> entries[i].onPlayerId, half |-> entries[i].half,
      minute |-> MinuteOf(entries[i].matchTime), matchTime |-> entries[i].matchTime]]

CardsOfLog(log) ==
  LET entries == SelectSeq(log, LAMBDA ev : ev.type = "card") IN
  [i \in 1..Len(entries) |->
     [id |-> entries[i].id, timestamp |-> entries[i].timestamp,
      team |-> entries[i].team, player |-> entries[i].playerId,
      type |-> entries[i].cardType, half |-> entries[i].half,
      minute |-> MinuteOf(entries[i].matchTime), matchTime |-> entries[i].matchTime,
      returnTime |-> entries[i].returnTime, returned |-> entries[i].returned]]

StartIdOf(m) ==
  (CHOOSE ev \in Range(m.log) : ev.type = "match-start").id

\* the statistics a player has when each saved match counts once
RECURSIVE ExpectedStats(_, _, _)
ExpectedStats(matches, seen, id) ==
  IF matches = << >> THEN NewPlayerStats
  ELSE LET m == Head(matches) IN
       IF StartIdOf(m) \in seen \/ id \notin Range(m.playerIds)
       THEN ExpectedStats(Tail(matches), seen, id)
       ELSE updatedStats(ExpectedStats(Tail(matches), seen \cup {StartIdOf(m)}, id),
                         m.log, id)

\* C13 (as claimed): once no save is under way, every finished match has
\* exactly one completed record, and every participating player's gamesPlayed
\* has grown by exactly 1 per finished match and the tries, points, yellow and
\* red card counters by the totals of the non-pending log entries naming the
\* player, however the clicks on End match and the saves were interleaved.
C13_SavedOnce ==
  NoSaveInFlight =>
    /\ \A i \in 1..Len(dbMatches), j \in 1..Len(dbMatches) :
         i # j => StartIdOf(dbMatches[i]) # StartIdOf(dbMatches[j])
    /\ (~matchStarted /\ systemEvents # << >>) =>
         \E i \in 1..Len(dbMatches) :
           /\ StartIdOf(dbMatches[i]) = systemEvents[1].id
           /\ dbMatches[i].status = "completed"
    /\ \A id \in DOMAIN dbPlayers :
         dbPlayers[id] = ExpectedStats(dbMatches, {}, id)

\* C14 (as claimed): when saveFinishedMatch has failed, the step with which
\* the End-match handler goes on leaves the match ledger in memory (the
\* match stays started, the event lists and the scores are kept), so that the
\* save can be tried again and the log of the match is not lost.
C14_FailedSaveKeepsLedger ==
  [][\A h \in Handlers : (endPc[h] = "failed" /\ endPc'[h] # "failed") =>
       /\ matchStarted' = matchStarted
       /\ UNCHANGED << scoreEvents, cards, substitutionEvents, systemEvents,
                       homeScore, awayScore >>]_vars

(* -------------------------- claims on the clock ------------------------ *)
\* the step is a call of startMatch
IsStartMatch == ~matchStarted /\ matchStarted'

MatchStartEvent(e) == e.type = "match-start" /\ e.half = 1 /\ e.matchTime = 0

\* C15 (as claimed): startMatch records a match-start system event and puts
\* the clock in the running state.
C15_StartMatchRuns ==
  [][IsStartMatch =>
       /\ Len(systemEvents') = 1 /\ MatchStartEvent(systemEvents'[1])
       /\ isRunning']_vars

\* C16 (as claimed): the tick that takes elapsedSeconds from below
\* halfDuration to halfDuration pauses the clock, and the ticks after it in
\* the same half do not pause it again.
C16_AutoPause ==
  [][/\ (elapsedSeconds < halfDuration /\ elapsedSeconds' = halfDuration)
          => ~isRunning'
     /\ (isRunning /\ elapsedSeconds >= halfDuration
          /\ elapsedSeconds' > elapsedSeconds) => isRunning']_vars

\* the step appends a system event of the given type
AppendsSystemEvent(type) ==
  /\ Len(systemEvents') = Len(systemEvents) + 1
  /\ SubSeq(systemEvents', 1, Len(systemEvents)) = systemEvents
  /\ systemEvents'[Len(systemEvents')].type = type

\* the store apart from the clock's three fields
LedgerAndLifecycle ==
  << homeScore, awayScore, scoreEvents, cards, players, substitutionEvents,
     systemEvents, cardReturnEvents, currentHalf, lastTryTeam, matchStarted,
     currentMatchId >>

\* C17: tick changes nothing when the clock is not running and adds exactly
\* one to elapsedSeconds when it is running, also at and after halfDuration;
\* a step that changes the running flag without a system event (toggleTimer)
\* changes nothing else, a step that raises injuryTime (addInjuryTime) raises
\* it by 60 and changes nothing else, and elapsedSeconds changes only in a
\* tick, in nextHalf and in endMatch.
C17_ClockFrame ==
  /\ [][/\ elapsedSeconds' # elapsedSeconds =>
            \/ /\ isRunning
               /\ elapsedSeconds' > elapsedSeconds
               /\ UNCHANGED << LedgerAndLifecycle, isRunning, injuryTime >>
            \/ AppendsSystemEvent("half-time") /\ elapsedSeconds' = 0
            \/ AppendsSystemEvent("match-end") /\ elapsedSeconds' = 0
        /\ (isRunning' # isRunning /\ systemEvents' = systemEvents) =>
             UNCHANGED << LedgerAndLifecycle, elapsedSeconds, injuryTime >>
        /\ injuryTime' > injuryTime =>
             /\ injuryTime' = injuryTime + InjuryIncrement
             /\ UNCHANGED << LedgerAndLifecycle, elapsedSeconds, isRunning >>]_vars
  /\ [](IF isRunning
        THEN /\ ENABLED (tick(1) /\ elapsedSeconds' = elapsedSeconds + 1)
             /\ ~ENABLED (tick(1) /\ elapsedSeconds' # elapsedSeconds + 1)
        ELSE ~ENABLED (tick(1) /\ vars' # vars))

\* the clock has run past halfDuration on a store that holds a score event
\* and injury time
C17_Witness ==
  /\ isRunning
  /\ elapsedSeconds = halfDuration + 1
  /\ injuryTime = InjuryIncrement
  /\ scoreEvents # << >>

\* C18: nextHalf appends a half-time system event tagged with the number of
\* the half being closed and the elapsed time at that moment, increments
\* currentHalf by one, sets elapsedSeconds and injuryTime to 0, pauses the
\* clock, and leaves the scores, score events, cards and substitutions as
\* they are.
C18_NextHalf ==
  [][AppendsSystemEvent("half-time") =>
       /\ systemEvents'[Len(systemEvents')].half = currentHalf
       /\ systemEvents'[Len(systemEvents')].matchTime = elapsedSeconds
       /\ currentHalf' = currentHalf + 1
       /\ elapsedSeconds' = 0
       /\ injuryTime' = 0
       /\ ~isRunning'
       /\ UNCHANGED << homeScore, awayScore, scoreEvents, cards,
                       substitutionEvents >>]_vars

\* the first half was closed in overtime, with injury time added and with a
\* score, a card or a substitution in the ledger
C18_Witness ==
  /\ systemEvents # << >>
  /\ systemEvents[Len(systemEvents)].type = "half-time"
  /\ systemEvents[Len(systemEvents)].half = 1
  /\ systemEvents[Len(systemEvents)].matchTime > halfDuration
  /\ currentHalf = 2
  /\ elapsedSeconds = 0
  /\ ~isRunning
  /\ scoreEvents # << >> \/ cards # << >> \/ substitutionEvents # << >>

(* ------------------- claims on the life of a match --------------------- *)
\* a match was ended and none was started since
Ended ==
  /\ ~matchStarted
  /\ \E i \in 1..Len(systemEvents) : systemEvents[i].type = "match-end"

\* C19 (as claimed): after endMatch and until the next startMatch no
\* operation changes the event lists, the scores or the clock.
C19_CompletedIsImmutable ==
  [][(Ended /\ ~matchStarted') =>
       UNCHANGED << scoreEvents, cards, substitutionEvents, systemEvents,
                    cardReturnEvents, homeScore, awayScore, elapsedSeconds,
                    isRunning, currentHalf >>]_vars

\* the half numbers of the half-time events, in order
HalfNumbers ==
  LET halves == SelectSeq(systemEvents, LAMBDA e : e.type = "half-time") IN
  [i \in 1..Len(halves) |-> halves[i].half]

\* the system events of a match in progress
InProgressShape ==
  matchStarted =>
    /\ systemEvents # << >>
    /\ systemEvents[1].type = "match-start"
    /\ \A i \in 2..Len(systemEvents) :
         systemEvents[i].type \notin {"match-start", "match-end"}
    /\ \A i \in 1..Len(HalfNumbers), j \in 1..Len(HalfNumbers) :
         i < j => HalfNumbers[i] < HalfNumbers[j]

\* the system events once a match was ended
EndedShape ==
  (~matchStarted /\ systemEvents # << >>) =>
    systemEvents[Len(systemEvents)].type = "match-end"

\* C20 (as claimed): while a match is in progress systemEvents starts with a
\* match-start event, holds exactly one match-start and no match-end, and
\* its half-time events carry strictly increasing half numbers; after
\* endMatch the last system event is a match-end and nothing follows it until
\* the next startMatch.
C20_SystemEventsShape ==
  [][/\ InProgressShape'
     /\ EndedShape'
     /\ (Ended /\ ~matchStarted') => systemEvents' = systemEvents]_vars

\* ---------------------------------------------------------------------------
\* Calls that miss: the store operations reached with an id that is not, or no
\* longer, in the ledger, or with the id of an event that is not pending
\* ---------------------------------------------------------------------------

\* the largest score at which a further approval is still explored
MaxPoints == 10

\* ids drawn so far that belong to no score event, together with one never drawn
MissingScoreIds == (1..nextId) \ ScoreIds

MissOps ==
  \/ \E team \in Teams, pending \in BOOLEAN, ts \in LaterStamps :
       AddScore(team, "try", NoPlayer, pending, ts)
  \/ \E ts \in LaterStamps : AddCard("home", "h1", "yellow", ts)
  \/ \E ts \in LaterStamps : SubstitutionConfirm("home", "h1", "h2", ts)
  \/ \E id \in 1..nextId, approved \in BOOLEAN :
       /\ homeScore <= MaxPoints
       /\ awayScore <= MaxPoints
       /\ ResolvePendingEvent(id, approved)
  \/ \E id \in 1..nextId : RemoveScoreEvent(id)
  \/ \E id \in 1..nextId : RemoveCard(id)
  \/ \E id \in 1..nextId : RemoveSubstitution(id)
  \/ Undo

\* the ledger operations called with any id drawn so far, in the ledger or not
NextMiss == SetupScore \/ MissOps
SpecMiss == Init /\ [][NextMiss]_vars

\* C21: resolvePendingEvent with an id that is in no score event, and undo with
\* the three event lists empty, have no successor that differs from the current
\* state in any variable
C21_MissesAreNoOps ==
  /\ \A id \in MissingScoreIds, approved \in BOOLEAN :
       ~ ENABLED (resolvePendingEvent(id, approved) /\ vars' # vars)
  /\ (scoreEvents = << >> /\ cards = << >> /\ substitutionEvents = << >>)
       => ~ ENABLED (undo /\ vars' # vars)

\* a started match whose three lists are empty again after a score event was
\* recorded and taken out: its id is drawn and is in none of the lists
C21_Witness ==
  /\ matchStarted
  /\ scoreEvents = << >> /\ cards = << >> /\ substitutionEvents = << >>
  /\ \E id \in MissingScoreIds :
       /\ id < nextId
       /\ \A e \in Range(systemEvents) : e.id # id

\* C22: removeScoreEvent, removeCard and removeSubstitution with an id that is in
\* the list they filter for no event have no successor that differs from the
\* current state
C22_MissingRemoveIsNoOp ==
  /\ \A id \in MissingScoreIds : ~ ENABLED (removeScoreEvent(id) /\ vars' # vars)
  /\ \A id \in (1..nextId) \ CardIds : ~ ENABLED (removeCard(id) /\ vars' # vars)
  /\ \A id \in (1..nextId) \ SubIds :
       ~ ENABLED (removeSubstitution(id) /\ vars' # vars)

\* lastTryTeam as addScore leaves it after the last non-pending event of a
\* ledger: the team of a try or penalty-try, and null after anything else
ReducedLastTryTeam(events) ==
  LET a == Approved(events) IN
  IF a # << >> /\ a[Len(a)].type \in {"try", "penalty-try"}
  THEN a[Len(a)].team
  ELSE NoTeam

\* C23: after removeScoreEvent took an event out, the scores are the sums over
\* the remaining non-pending events and lastTryTeam is the team of the last
\* remaining non-pending event when that is a try or penalty-try, null otherwise
C23_RemoveMatchesReducer ==
  [][\A id \in ScoreIds :
       RemoveScoreEvent(id) =>
         /\ homeScore' = ApprovedPoints(scoreEvents', "home")
         /\ awayScore' = ApprovedPoints(scoreEvents', "away")
         /\ lastTryTeam' = ReducedLastTryTeam(scoreEvents')]_vars

\* lastTryTeam as the tail of a ledger determines it: the team of the last score
\* event when that is a non-pending try or penalty-try, null otherwise
TailLastTryTeam(events) ==
  IF /\ events # << >>
     /\ events[Len(events)].type \in {"try", "penalty-try"}
     /\ ~events[Len(events)].pending
  THEN events[Len(events)].team
  ELSE NoTeam

\* C24: after undo dropped the last score event, lastTryTeam is the team of the
\* new last score event when that is a non-pending try or penalty-try, and null
\* in every other case
C24_UndoLastTryTeam ==
  [][(Undo /\ undoBranch(scoreEvents, cards, substitutionEvents) = "score")
       => lastTryTeam' = TailLastTryTeam(scoreEvents')]_vars

\* C25: on a started match and for each team, lastTryTeam is the team (its
\* Conversion button is enabled) exactly when addScore(team, 'conversion') would
\* record the conversion
C25_ButtonAgreesWithStore ==
  \A team \in Teams :
    (matchStarted /\ nextId <= MaxIds)
      => ((lastTryTeam = team) <=> ConversionRecorded(team))

\* C26: resolvePendingEvent applied to a score event that is in the ledger and
\* not pending changes neither score nor the list of score events, whether it
\* approves or rejects
C26_ResolveConfirmedIsNoOp ==
  [][\A e \in Range(scoreEvents), approved \in BOOLEAN :
       (~e.pending /\ ResolvePendingEvent(e.id, approved))
         => UNCHANGED << homeScore, awayScore, scoreEvents >>]_vars

\* ---------------------------------------------------------------------------
\* The sin bin across the half-time break
\* ---------------------------------------------------------------------------

SinBinOps ==
  \/ ToggleTimer
  \/ matchStarted /\ Tick
  \/ \E ts \in LaterStamps : AddCard("home", "h1", "yellow", ts)
  \/ \E ts \in LaterStamps : NextHalf(ts)

\* yellow cards of a starter under the running clock and the half-time button
NextSinBin == SetupEnd \/ SinBinOps
SpecSinBin == Init /\ [][NextSinBin]_vars

\* the seconds the halves from half number h on had run when they were closed
RECURSIVE ClosedSeconds(_, _)
ClosedSeconds(events, h) ==
  IF events = << >> THEN 0
  ELSE (IF Head(events).type = "half-time" /\ Head(events).half >= h
        THEN Head(events).matchTime ELSE 0) + ClosedSeconds(Tail(events), h)

\* the ticks of the running clock since card c was recorded
ServedTicks(c) == ClosedSeconds(systemEvents, c.half) + elapsedSeconds - c.matchTime

\* C27: a starter with yellow cards that are not marked returned is in onPitch
\* exactly when the clock has ticked at least 600 times since each of them, in
\* whichever half the ticks fell
C27_SinBinAcrossHalves ==
  \A p \in Range(players) :
    (/\ p.isStarter
     /\ \E c \in Range(cards) : c.player = p.id /\ c.type = "yellow" /\ ~c.returned)
      => (p.id \in OnPitchIds(p.team, cards, elapsedSeconds)
            <=> \A c \in Range(cards) :
                  (c.player = p.id /\ c.type = "yellow" /\ ~c.returned)
                    => ServedTicks(c) >= SinBinSeconds)

\* ---------------------------------------------------------------------------
\* The substitution dialog with its team switch
\* ---------------------------------------------------------------------------

\* SubstitutionModal.handleConfirm: team, offId and onId are the dialog's state.
\* offId was picked from the onPitch list of the team shown at that click and
\* onId from the onBench list of the team shown at that click; setTeam changes
\* the team shown and keeps both picks
SubstitutionModalConfirm(team, offId, onId, ts) ==
  LET squad == getSquadStatus(team, players, substitutionEvents, cards, elapsedSeconds)
      onPlayer == Filter(squad.onBench, LAMBDA p : p.id = onId)
  IN /\ \E shown \in Teams : offId \in OnPitchIds(shown, cards, elapsedSeconds)
     /\ \E shown \in Teams :
          onId \in Ids(getSquadStatus(shown, players, substitutionEvents, cards,
                                      elapsedSeconds).onBench)
     /\ AddSubstitution(team, offId, onId, onPlayer, ts)

DialogOps ==
  \/ \E team \in Teams : \E offId \in Ids(players), onId \in Ids(players),
        ts \in LaterStamps : SubstitutionModalConfirm(team, offId, onId, ts)
  \/ \E id \in SubIds : RemoveSubstitution(id)
  \/ \E type \in CardTypes, ts \in LaterStamps : AddCard("away", "a1", type, ts)

\* substitutions made through the dialog, in which the team can be switched
\* after players were picked
NextDialog == SetupEnd \/ DialogOps
SpecDialog == Init /\ [][NextDialog]_vars

\* C28: every substitution that is recorded names an outgoing player who is in
\* its team's onPitch list and an incoming player who is in its team's onBench
\* list in the state in which it is recorded, and it leaves the size of the
\* team's on-field set as it was
C28_SubstitutionSwapsOwnPlayers ==
  [][Len(substitutionEvents') = Len(substitutionEvents) + 1 =>
       \E s \in Range(substitutionEvents') :
         /\ s = substitutionEvents'[Len(substitutionEvents')]
         /\ s.offPlayerId \in OnPitchIds(s.team, cards, elapsedSeconds)
         /\ s.onPlayerId \in Ids(getSquadStatus(s.team, players, substitutionEvents,
                                               cards, elapsedSeconds).onBench)
         /\ Cardinality(currentlyOnPitch(s.team, players', substitutionEvents'))
              = Cardinality(currentlyOnPitch(s.team, players, substitutionEvents))]_vars

\* ---------------------------------------------------------------------------
\* Cards and their return events
\* ---------------------------------------------------------------------------

ReturnOps ==
  \/ \E team \in Teams : \E player \in TeamIds(team), type \in CardTypes,
        ts \in Stamps : AddCard(team, player, type, ts)
  \/ \E id \in CardIds, ts \in Stamps : ReturnFromSinBin(id, ts)
  \/ \E id \in CardIds : RemoveCard(id)
  \/ Undo

\* addCard, returnFromSinBin on any card in the list, removeCard and undo
NextReturn == SetupUndo \/ ReturnOps
SpecReturn == Init /\ [][NextReturn]_vars

\* the card-return events that reference a card
ReturnsOf(cardId) == {r \in Range(cardReturnEvents) : r.cardId = cardId}

\* C29: every card-return event references a card that is in cards, and a card
\* is marked returned exactly when exactly one card-return event references it
C29_ReturnsMatchCards ==
  /\ \A r \in Range(cardReturnEvents) : r.cardId \in CardIds
  /\ \A c \in Range(cards) : c.returned <=> Cardinality(ReturnsOf(c.id)) = 1

\* the event has an entry in the log of a persisted match record
Persisted(e) ==
  \E m \in Range(dbMatches) : \E i \in 1..Len(m.log) : m.log[i].id = e.id

\* C30: when the End-match handler, its save resolved, calls endMatch, every
\* score event, card and substitution that endMatch clears from the store has
\* an entry in the log of a persisted match record
C30_NoEventLost ==
  [][\A h \in Handlers :
       (endPc[h] = "saved" /\ matchStarted /\ ~matchStarted')
         => \A e \in Range(scoreEvents) \cup Range(cards)
                       \cup Range(substitutionEvents) : Persisted(e)]_vars

====
